---- MODULE Spec2Model ----
(***************************************************************************)
(* Model of the web-call client: the CallInterface component (call state   *)
(* machine, WebSocket handlers, capture set-up, playback queue, cleanup)   *)
(* and the SlideToCall gesture control.                                    *)
(*                                                                         *)
(* Every handler of the source is an operator from a state record to a     *)
(* state record; an action applies one handler to the current state and    *)
(* commits the result.  JavaScript runs one handler at a time, so each     *)
(* handler (up to its first await) is one atomic step.                     *)
(***************************************************************************)
EXTENDS Integers, Sequences, FiniteSets, TLC

\* ---------------------------------------------------------------- bounds
MaxMsgs == 4          \* inbound envelopes delivered in the playback specification
MaxCalls == 2         \* handleCallStart invocations in the session specification
MaxSessionMsgs == 1   \* inbound envelopes delivered in the session specification
MaxMounts == 2        \* SlideToCall instances created in the gesture specification
MaxMoves == 3         \* move events delivered to one SlideToCall instance
MaxDrags == 2         \* drags started on one SlideToCall instance
MaxTexts == 1         \* messages submitted through MessageInput
MaxAudio == 1         \* audio envelopes sent by onaudioprocess
SampleDen == 1000     \* captured samples are the multiples of 1/SampleDen

\* a payload is named by the arrival number of its envelope
PayloadIds == 1..MaxMsgs
CallIds == 1..MaxCalls

\* ------------------------------------------------------ program constants
maxSlide == 258

VARIABLES
  \* CallInterface: React state
  callState, callStartTime,
  \* CallInterface: refs
  wsRef, mediaStreamRef, inputAudioContextRef, outputAudioContextRef,
  processorRef, sourceRef, analyserRef,
  audioQueueRef, isPlayingRef, currentSourceRef,
  \* the browser objects the refs point to
  sockets,        \* readyState of the WebSocket each handleCallStart made
  calls,          \* position of each handleCallStart invocation
  liveStreams,    \* MediaStreams whose tracks have not been stopped
  openInputCtx,   \* input AudioContexts not closed
  openOutputCtx,  \* output AudioContexts not closed
  captureGraphs,  \* connected source/analyser/processor graphs
  nodes,          \* AudioBufferSourceNodes made by playNextAudio
  closeDue,       \* socket whose error event fired and whose close event
                  \* follows in the same task (0: none)
  timers,         \* pending setTimeout(onCallStart) callbacks
  \* observation
  log,            \* payloads received, clears, render starts and skips since
                  \* the last cleanup
  nMsgs,          \* envelopes delivered so far
  toasts,         \* how many times each notification was shown
  sent,           \* per socket, the types of the envelopes sent on it
  \* one PCM sample on its way through encode and decode
  inputData,      \* numerator of the captured sample (denominator SampleDen)
  pcm16,          \* the Int16Array element the sample was stored into
  audioBase64,    \* the base64 digits (0..63) of the two bytes of pcm16
  float32Array,   \* numerator of the decoded sample (denominator 32768)
  pcmStep,        \* "none", "input", "encoded" or "decoded"
  \* SlideToCall
  mounted,        \* the parent renders the control (callState is 'idle')
  isDragging, slidePosition, isComplete,   \* useState values, updates applied
  rendered,       \* the values the handlers of the last render closed over
  listener,       \* the document listeners and the values they closed over
  pointerDown,    \* the user's pointer is down
  drags,          \* per drag: callbacks scheduled, threshold crossed
  moves, mounts   \* move events delivered, instances created

pbVars == <<audioQueueRef, isPlayingRef, currentSourceRef,
            outputAudioContextRef, openOutputCtx, nodes, log, nMsgs>>
sessVars == <<callState, callStartTime, wsRef, mediaStreamRef,
              inputAudioContextRef, processorRef, sourceRef, analyserRef,
              sockets, calls, liveStreams, openInputCtx, captureGraphs,
              closeDue, timers, toasts, sent>>
pcmVars == <<inputData, pcm16, audioBase64, float32Array, pcmStep>>
slideVars == <<mounted, isDragging, slidePosition, isComplete, rendered,
               listener, pointerDown, drags, moves, mounts>>
vars == <<pbVars, sessVars, slideVars, pcmVars>>

\* ------------------------------------------------------------ state record
\* The state the handlers of CallInterface read and write.
S == [callState |-> callState, callStartTime |-> callStartTime,
      wsRef |-> wsRef, mediaStreamRef |-> mediaStreamRef,
      inputAudioContextRef |-> inputAudioContextRef,
      outputAudioContextRef |-> outputAudioContextRef,
      processorRef |-> processorRef, sourceRef |-> sourceRef,
      analyserRef |-> analyserRef,
      audioQueueRef |-> audioQueueRef, isPlayingRef |-> isPlayingRef,
      currentSourceRef |-> currentSourceRef,
      sockets |-> sockets, calls |-> calls, liveStreams |-> liveStreams,
      openInputCtx |-> openInputCtx, openOutputCtx |-> openOutputCtx,
      captureGraphs |-> captureGraphs, nodes |-> nodes,
      closeDue |-> closeDue, timers |-> timers, log |-> log, nMsgs |-> nMsgs,
      toasts |-> toasts, sent |-> sent]

Commit(s) ==
  /\ callState' = s.callState
  /\ callStartTime' = s.callStartTime
  /\ wsRef' = s.wsRef
  /\ mediaStreamRef' = s.mediaStreamRef
  /\ inputAudioContextRef' = s.inputAudioContextRef
  /\ outputAudioContextRef' = s.outputAudioContextRef
  /\ processorRef' = s.processorRef
  /\ sourceRef' = s.sourceRef
  /\ analyserRef' = s.analyserRef
  /\ audioQueueRef' = s.audioQueueRef
  /\ isPlayingRef' = s.isPlayingRef
  /\ currentSourceRef' = s.currentSourceRef
  /\ sockets' = s.sockets
  /\ calls' = s.calls
  /\ liveStreams' = s.liveStreams
  /\ openInputCtx' = s.openInputCtx
  /\ openOutputCtx' = s.openOutputCtx
  /\ captureGraphs' = s.captureGraphs
  /\ nodes' = s.nodes
  /\ closeDue' = s.closeDue
  /\ timers' = s.timers
  /\ log' = s.log
  /\ nMsgs' = s.nMsgs
  /\ toasts' = s.toasts
  /\ sent' = s.sent
  /\ UNCHANGED pcmVars

Max(a, b) == IF a > b THEN a ELSE b
Min(a, b) == IF a < b THEN a ELSE b

\* ----------------------------------------------------------- notifications
\* The notifications the component shows, by title; the two with the title
\* "Error" are told apart by their description.
Titles == {"Connecting...", "Call Connected", "Connection Error",
           "Error: Failed to start call", "Call Ended", "Message Sent",
           "Error: data.message"}

\* toast({title, ...})
Toast(s, title) == [s EXCEPT !.toasts[title] = @ + 1]

\* ws.send(JSON.stringify({type, ...})) on the socket of invocation c
Send(s, c, type) == [s EXCEPT !.sent[c] = Append(@, type)]

\* ---------------------------------------------------------------- playback
\* AudioBufferSourceNode.stop(): a rendering node goes silent and its ended
\* event is queued; stopping a node that already finished changes nothing.
StopNode(nd) ==
  IF nd.status = "rendering" THEN [nd EXCEPT !.status = "stopped"] ELSE nd

\* clearAudioQueue without the stop() of the current source
ClearAudioQueueNoStop(s) ==
  [s EXCEPT !.audioQueueRef = <<>>,
            !.log = Append(@, <<"clear", 0>>),
            !.currentSourceRef = 0,
            !.isPlayingRef = FALSE]

\* clearAudioQueue
ClearAudioQueue(s) ==
  LET s1 == [s EXCEPT !.audioQueueRef = <<>>,
                      !.log = Append(@, <<"clear", 0>>)]
      s2 == IF s1.currentSourceRef # 0
            THEN [s1 EXCEPT !.nodes[s1.currentSourceRef] = StopNode(@),
                            !.currentSourceRef = 0]
            ELSE s1
  IN [s2 EXCEPT !.isPlayingRef = FALSE]

\* playNextAudio: the function has no await, so it runs to its end inside the
\* handler that calls it.  A payload with ok = FALSE throws inside the try
\* block (atob, Int16Array or createBuffer) after the output context was made.
\* playNextAudio whose catch does not go on to the next payload
PlayNextAudioStallsOnFailure(s) ==
  IF s.audioQueueRef = <<>>
  THEN [s EXCEPT !.isPlayingRef = FALSE]
  ELSE LET audio == Head(s.audioQueueRef)
           s1 == [s EXCEPT !.isPlayingRef = TRUE, !.audioQueueRef = Tail(@)]
           ctx == IF s1.outputAudioContextRef = 0 THEN audio.id
                  ELSE s1.outputAudioContextRef
           s2 == [s1 EXCEPT !.outputAudioContextRef = ctx,
                            !.openOutputCtx = @ \cup {ctx}]
       IN IF audio.ok
          THEN [s2 EXCEPT !.currentSourceRef = audio.id,
                          !.nodes[audio.id] =
                              [status |-> "rendering", ctx |-> ctx],
                          !.log = Append(@, <<"start", audio.id>>)]
          ELSE [s2 EXCEPT !.currentSourceRef = 0,
                          !.log = Append(@, <<"skip", audio.id>>)]

RECURSIVE PlayNextAudio(_)
PlayNextAudio(s) ==
  IF s.audioQueueRef = <<>>
  THEN [s EXCEPT !.isPlayingRef = FALSE]
  ELSE LET audio == Head(s.audioQueueRef)
           s1 == [s EXCEPT !.isPlayingRef = TRUE, !.audioQueueRef = Tail(@)]
           ctx == IF s1.outputAudioContextRef = 0 THEN audio.id
                  ELSE s1.outputAudioContextRef
           s2 == [s1 EXCEPT !.outputAudioContextRef = ctx,
                            !.openOutputCtx = @ \cup {ctx}]
       IN IF audio.ok
          THEN [s2 EXCEPT !.currentSourceRef = audio.id,
                          !.nodes[audio.id] =
                              [status |-> "rendering", ctx |-> ctx],
                          !.log = Append(@, <<"start", audio.id>>)]
          ELSE PlayNextAudio([s2 EXCEPT !.currentSourceRef = 0,
                                        !.log = Append(@, <<"skip", audio.id>>)])

\* queueAudio
QueueAudio(s, audio) ==
  LET s1 == [s EXCEPT !.audioQueueRef = Append(@, audio)]
  IN IF ~s1.isPlayingRef THEN PlayNextAudio(s1) ELSE s1

\* an onended handler that resets the current source and does not go on to
\* the next payload
OnEndedDoesNotAdvance(s, n) ==
  [s EXCEPT !.nodes[n].status = "done", !.currentSourceRef = 0]

\* the onended handler playNextAudio installs on every node it starts
OnEnded(s, n) ==
  PlayNextAudio([s EXCEPT !.nodes[n].status = "done", !.currentSourceRef = 0])

\* handleWebSocketMessage whose 'transcript' case has no break and falls
\* through to 'clear_audio'
HandleWebSocketMessageFallsThrough(s, env) ==
  LET s1 == [s EXCEPT !.nMsgs = @ + 1] IN
  CASE env.type = "audio" ->
         LET id == s1.nMsgs
         IN QueueAudio([s1 EXCEPT !.log = Append(@, <<"audio", id>>)],
                       [id |-> id, ok |-> env.ok])
    [] env.type \in {"clear_audio", "transcript"} -> ClearAudioQueue(s1)
    [] env.type = "error" -> Toast(s1, "Error: data.message")
    [] env.type = "malformed" ->
         [s1 EXCEPT !.log = Append(@, <<"dropped", s1.nMsgs>>)]
    [] OTHER -> s1

\* handleWebSocketMessage whose catch also resets the playback
HandleWebSocketMessageCatchClears(s, env) ==
  LET s1 == [s EXCEPT !.nMsgs = @ + 1] IN
  CASE env.type = "audio" ->
         LET id == s1.nMsgs
         IN QueueAudio([s1 EXCEPT !.log = Append(@, <<"audio", id>>)],
                       [id |-> id, ok |-> env.ok])
    [] env.type = "clear_audio" -> ClearAudioQueue(s1)
    [] env.type = "error" -> Toast(s1, "Error: data.message")
    [] env.type = "malformed" ->
         ClearAudioQueue([s1 EXCEPT !.log = Append(@, <<"dropped", s1.nMsgs>>)])
    [] OTHER -> s1

\* handleWebSocketMessage.  A message that JSON.parse rejects goes to the
\* catch, which writes a diagnostic (a 'dropped' entry of the log); the
\* switch has no case for 'text' and an empty one for 'transcript'.
HandleWebSocketMessage(s, env) ==
  LET s1 == [s EXCEPT !.nMsgs = @ + 1] IN
  CASE env.type = "audio" ->
         LET id == s1.nMsgs
         IN QueueAudio([s1 EXCEPT !.log = Append(@, <<"audio", id>>)],
                       [id |-> id, ok |-> env.ok])
    [] env.type = "clear_audio" -> ClearAudioQueue(s1)
    [] env.type = "error" -> Toast(s1, "Error: data.message")
    [] env.type = "malformed" ->
         [s1 EXCEPT !.log = Append(@, <<"dropped", s1.nMsgs>>)]
    [] OTHER -> s1     \* transcript, text

Envelopes ==
  [type : {"audio"}, ok : BOOLEAN] \cup
  [type : {"clear_audio", "transcript", "text", "error", "malformed"},
   ok : {TRUE}]

Rendering(n) == nodes[n].status = "rendering"

\* ----------------------------------------------------------------- session
\* cleanup that stops the tracks but keeps mediaStreamRef
CleanupKeepsStreamRef(s) ==
  LET s1 == [ClearAudioQueue(s) EXCEPT !.log = <<>>]
      s2 == [s1 EXCEPT !.captureGraphs =
                           {g \in @ : g.id \notin {s1.processorRef, s1.sourceRef}},
                       !.processorRef = 0, !.sourceRef = 0]
      s3 == [s2 EXCEPT !.liveStreams = @ \ {s2.mediaStreamRef}]
      s4 == [s3 EXCEPT !.openInputCtx = @ \ {s3.inputAudioContextRef},
                       !.inputAudioContextRef = 0]
  IN [s4 EXCEPT !.openOutputCtx = @ \ {s4.outputAudioContextRef},
                !.nodes = [n \in PayloadIds |->
                             IF @[n].ctx = s4.outputAudioContextRef
                                /\ s4.outputAudioContextRef # 0
                             THEN StopNode(@[n]) ELSE @[n]],
                !.outputAudioContextRef = 0]

\* cleanup.  Closing an AudioContext silences every node that renders in it.
\* The log observes one session: it starts again at every cleanup.
Cleanup(s) ==
  LET s1 == [ClearAudioQueue(s) EXCEPT !.log = <<>>]
      \* animationFrameRef is never set: animate() reads the callState of the
      \* first render ('idle') and returns before requestAnimationFrame.
      s2 == IF s1.processorRef # 0
            THEN [s1 EXCEPT !.captureGraphs =
                                {g \in @ : g.id # s1.processorRef},
                            !.processorRef = 0]
            ELSE s1
      s3 == IF s2.sourceRef # 0
            THEN [s2 EXCEPT !.captureGraphs = {g \in @ : g.id # s2.sourceRef},
                            !.sourceRef = 0]
            ELSE s2
      s4 == IF s3.mediaStreamRef # 0
            THEN [s3 EXCEPT !.liveStreams = @ \ {s3.mediaStreamRef},
                            !.mediaStreamRef = 0]
            ELSE s3
      s5 == IF s4.inputAudioContextRef # 0
               /\ s4.inputAudioContextRef \in s4.openInputCtx
            THEN [s4 EXCEPT !.openInputCtx = @ \ {s4.inputAudioContextRef},
                            !.inputAudioContextRef = 0]
            ELSE s4
  IN IF s5.outputAudioContextRef # 0
        /\ s5.outputAudioContextRef \in s5.openOutputCtx
     THEN [s5 EXCEPT !.openOutputCtx = @ \ {s5.outputAudioContextRef},
                     !.nodes = [n \in PayloadIds |->
                                  IF @[n].ctx = s5.outputAudioContextRef
                                  THEN StopNode(@[n]) ELSE @[n]],
                     !.outputAudioContextRef = 0]
     ELSE s5

\* WebSocket.close(): starts the closing handshake of a socket that is
\* connecting or open, and does nothing to one that is closing or closed.
CloseSocket(st) == IF st \in {"CONNECTING", "OPEN"} THEN "CLOSING" ELSE st

\* handleCallEnd
HandleCallEnd(s) ==
  LET s1 == IF s.wsRef # 0
            THEN [s EXCEPT !.sockets[s.wsRef] = CloseSocket(@), !.wsRef = 0]
            ELSE s
      s2 == Cleanup(s1)
  IN Toast([s2 EXCEPT !.callState = "idle", !.callStartTime = 0],
           "Call Ended")

\* handleCallStart up to the await of getUserMedia inside setupAudio
HandleCallStart(s, c) ==
  Toast([s EXCEPT !.callState = "connecting", !.calls[c] = "getUserMedia"],
        "Connecting...")

\* setupAudio after getUserMedia resolved, then the rest of the try block of
\* handleCallStart: the socket is constructed and its handlers are set.
SetupAudioThenConnect(s, c) ==
  [s EXCEPT !.mediaStreamRef = c, !.liveStreams = @ \cup {c},
            !.inputAudioContextRef = c, !.openInputCtx = @ \cup {c},
            !.analyserRef = c,
            !.sockets[c] = "CONNECTING", !.calls[c] = "done"]

\* the catch of handleCallStart without its setCallState('idle')
AcquisitionDeniedStaysConnecting(s, c) ==
  [Toast(s, "Error: Failed to start call") EXCEPT !.calls[c] = "done"]

\* getUserMedia rejects: setupAudio rethrows, the catch of handleCallStart runs
AcquisitionDenied(s, c) ==
  [Toast(s, "Error: Failed to start call")
     EXCEPT !.callState = "idle", !.calls[c] = "done"]

\* getUserMedia resolved and the AudioContext constructor throws: setupAudio
\* rethrows with the stream already stored, the catch of handleCallStart runs
InputContextFails(s, c) ==
  [Toast(s, "Error: Failed to start call")
     EXCEPT !.mediaStreamRef = c, !.liveStreams = @ \cup {c},
            !.callState = "idle", !.calls[c] = "done"]

\* setupAudio succeeded and the WebSocket constructor throws: the catch runs
SocketConstructionFails(s, c) ==
  [Toast(s, "Error: Failed to start call")
     EXCEPT !.mediaStreamRef = c, !.liveStreams = @ \cup {c},
            !.inputAudioContextRef = c, !.openInputCtx = @ \cup {c},
            !.analyserRef = c,
            !.callState = "idle", !.calls[c] = "done"]

\* startAudioProcessing
StartAudioProcessing(s, c) ==
  IF s.mediaStreamRef = 0 \/ s.inputAudioContextRef = 0 \/ s.analyserRef = 0
  THEN s
  ELSE [s EXCEPT !.sourceRef = c, !.processorRef = c,
                 !.captureGraphs = @ \cup
                     {[id |-> c, ctx |-> s.inputAudioContextRef,
                       stream |-> s.mediaStreamRef]}]

\* handleSendMessage that acknowledges only what it sent
HandleSendMessageSilentWhenClosed(s) ==
  IF s.wsRef # 0 /\ s.sockets[s.wsRef] = "OPEN"
  THEN Toast(Send(s, s.wsRef, "text"), "Message Sent")
  ELSE s

\* handleSendMessage
HandleSendMessage(s) ==
  IF s.wsRef # 0 /\ s.sockets[s.wsRef] = "OPEN"
  THEN Toast(Send(s, s.wsRef, "text"), "Message Sent")
  ELSE Toast(s, "Message Sent")

\* processorRef.current.onaudioprocess of a connected processor: the block is
\* encoded sample by sample (Pcm16 below) and sent as one audio envelope
OnAudioProcess(s) ==
  IF s.wsRef = 0 \/ s.sockets[s.wsRef] # "OPEN"
  THEN s
  ELSE Send(s, s.wsRef, "audio")

\* ws.onopen that starts the capture without sending the config envelope
OnOpenConfigNotSent(s, c) ==
  LET s1 == [s EXCEPT !.sockets[c] = "OPEN", !.wsRef = c,
                      !.callState = "active", !.callStartTime = 1]
  IN StartAudioProcessing(Toast(s1, "Call Connected"), c)

\* ws.onopen of the socket made by invocation c
OnOpen(s, c) ==
  LET s1 == [s EXCEPT !.sockets[c] = "OPEN", !.wsRef = c,
                      !.callState = "active", !.callStartTime = 1]
      s2 == Send(Toast(s1, "Call Connected"), c, "config")
  IN StartAudioProcessing(s2, c)

\* ws.onerror: the browser fires error and then close in one task
OnError(s, c) ==
  [Toast(s, "Connection Error")
     EXCEPT !.sockets[c] = "CLOSED", !.callState = "idle", !.closeDue = c]

\* ws.onclose
OnClose(s, c) ==
  HandleCallEnd([s EXCEPT !.sockets[c] = "CLOSED", !.closeDue = 0])

\* -------------------------------------------------------------------- Init
NoNode == [status |-> "none", ctx |-> 0]

InitCall ==
  /\ callState = "idle" /\ callStartTime = 0
  /\ wsRef = 0 /\ mediaStreamRef = 0
  /\ inputAudioContextRef = 0 /\ outputAudioContextRef = 0
  /\ processorRef = 0 /\ sourceRef = 0 /\ analyserRef = 0
  /\ audioQueueRef = <<>> /\ isPlayingRef = FALSE /\ currentSourceRef = 0
  /\ sockets = [c \in CallIds |-> "NONE"]
  /\ calls = [c \in CallIds |-> "none"]
  /\ liveStreams = {} /\ openInputCtx = {} /\ openOutputCtx = {}
  /\ captureGraphs = {}
  /\ nodes = [n \in PayloadIds |-> NoNode]
  /\ closeDue = 0 /\ timers = 0
  /\ log = <<>> /\ nMsgs = 0
  /\ toasts = [t \in Titles |-> 0]
  /\ sent = [c \in CallIds |-> <<>>]

\* no sample is on its way
InitNoSample ==
  /\ inputData = 0 /\ pcm16 = 0 /\ audioBase64 = <<>> /\ float32Array = 0
  /\ pcmStep = "none"

FreshSlide == [isDragging |-> FALSE, slidePosition |-> 0, isComplete |-> FALSE]
NoListener == [on |-> FALSE, isDragging |-> FALSE, slidePosition |-> 0,
               isComplete |-> FALSE]

InitSlide ==
  /\ mounted = TRUE /\ isDragging = FALSE /\ slidePosition = 0
  /\ isComplete = FALSE
  /\ rendered = FreshSlide
  /\ listener = NoListener
  /\ pointerDown = FALSE /\ drags = <<>> /\ moves = 0 /\ mounts = 1

Init == InitCall /\ InitSlide /\ InitNoSample

\* ---------------------------------------------- playback specification
\* The playback pipeline alone: envelopes arrive, renders finish, ended
\* events are dispatched.
Deliver(env) ==
  /\ nMsgs < MaxMsgs
  /\ Commit(HandleWebSocketMessage(S, env))
  /\ UNCHANGED slideVars

\* a render reaches the end of its buffer; the browser queues its ended event
RenderFinish(n) ==
  /\ nodes[n].status = "rendering"
  /\ nodes' = [nodes EXCEPT ![n].status = "finished"]
  /\ UNCHANGED <<audioQueueRef, isPlayingRef, currentSourceRef,
                 outputAudioContextRef, openOutputCtx, log, nMsgs>>
  /\ UNCHANGED <<sessVars, slideVars, pcmVars>>

\* the ended event of a finished or stopped node is dispatched
Ended(n) ==
  /\ closeDue = 0
  /\ nodes[n].status \in {"finished", "stopped"}
  /\ Commit(OnEnded(S, n))
  /\ UNCHANGED slideVars

NextPlayback ==
  \/ \E env \in Envelopes : Deliver(env)
  \/ \E n \in PayloadIds : RenderFinish(n)
  \/ \E n \in PayloadIds : Ended(n)

SpecPlayback == Init /\ [][NextPlayback]_vars

\* ------------------------------------------------ session specification
\* The SlideToCall control is reduced to its effect on the session: a
\* completed slide schedules the start callback once, or more than once when
\* the registered listener sees another move before the control re-renders
\* (handleMove below); handleCallStart unmounts the control.
Schedules == {1, 2}

NextCall == Cardinality({c \in CallIds : calls[c] # "none"}) + 1

SlideCompletes(k) ==
  /\ closeDue = 0
  /\ callState = "idle" /\ ~isComplete
  /\ NextCall - 1 + timers + k <= MaxCalls
  /\ isComplete' = TRUE
  /\ timers' = timers + k
  /\ UNCHANGED <<pbVars, callState, callStartTime, wsRef, mediaStreamRef,
                 inputAudioContextRef, processorRef, sourceRef, analyserRef,
                 sockets, calls, liveStreams, openInputCtx, captureGraphs,
                 closeDue, toasts, sent, pcmVars>>
  /\ UNCHANGED <<mounted, isDragging, slidePosition, rendered, listener,
                 pointerDown, drags, moves, mounts>>

UnchangedButComplete ==
  UNCHANGED <<mounted, isDragging, slidePosition, rendered, listener,
              pointerDown, drags, moves, mounts>>

\* the setTimeout callback of handleMove runs onCallStart = handleCallStart
StartTimerFires ==
  /\ closeDue = 0
  /\ timers > 0 /\ NextCall <= MaxCalls
  /\ Commit(HandleCallStart([S EXCEPT !.timers = @ - 1], NextCall))
  /\ isComplete' = FALSE
  /\ UnchangedButComplete

GetUserMediaResolves(c) ==
  /\ closeDue = 0
  /\ calls[c] = "getUserMedia"
  /\ Commit(SetupAudioThenConnect(S, c))
  /\ UNCHANGED slideVars

GetUserMediaRejects(c) ==
  /\ closeDue = 0
  /\ calls[c] = "getUserMedia"
  /\ Commit(AcquisitionDenied(S, c))
  /\ UNCHANGED slideVars

AudioContextThrows(c) ==
  /\ closeDue = 0
  /\ calls[c] = "getUserMedia"
  /\ Commit(InputContextFails(S, c))
  /\ UNCHANGED slideVars

WebSocketThrows(c) ==
  /\ closeDue = 0
  /\ calls[c] = "getUserMedia"
  /\ Commit(SocketConstructionFails(S, c))
  /\ UNCHANGED slideVars

SocketOpens(c) ==
  /\ closeDue = 0
  /\ sockets[c] = "CONNECTING"
  /\ Commit(OnOpen(S, c))
  /\ UNCHANGED slideVars

\* the connection fails: error event, then (SocketCloses) the close event
SocketErrors(c) ==
  /\ closeDue = 0
  /\ sockets[c] \in {"CONNECTING", "OPEN", "CLOSING"}
  /\ Commit(OnError(S, c))
  /\ UNCHANGED slideVars

\* the close event: after an error, after the closing handshake, or when the
\* server closes an open connection
SocketCloses(c) ==
  /\ \/ closeDue = c
     \/ closeDue = 0 /\ sockets[c] \in {"OPEN", "CLOSING"}
  /\ Commit(OnClose(S, c))
  /\ UNCHANGED slideVars

\* the End Call button, rendered while the call is active
HangUp ==
  /\ closeDue = 0
  /\ callState = "active"
  /\ Commit(HandleCallEnd(S))
  /\ UNCHANGED slideVars

\* MessageInput submits a message; it is rendered while the call is idle or
\* active
SendText ==
  /\ closeDue = 0
  /\ callState \in {"idle", "active"}
  /\ toasts["Message Sent"] < MaxTexts
  /\ Commit(HandleSendMessage(S))
  /\ UNCHANGED slideVars

AudioSent ==
  Cardinality({<<c, i>> \in CallIds \X (1..(MaxAudio + MaxTexts + 1)) :
                 i <= Len(sent[c]) /\ sent[c][i] = "audio"})

\* the audioprocess event of the processor startAudioProcessing made for
\* socket c, while its graph is connected and its context is open
AudioProcess(c) ==
  /\ closeDue = 0
  /\ \E g \in captureGraphs : g.id = c /\ g.ctx \in openInputCtx
  /\ AudioSent < MaxAudio
  /\ Commit(OnAudioProcess(S))
  /\ UNCHANGED slideVars

\* ws.onmessage of an open socket
Message(c, env) ==
  /\ closeDue = 0
  /\ sockets[c] = "OPEN"
  /\ nMsgs < MaxSessionMsgs
  /\ Commit(HandleWebSocketMessage(S, env))
  /\ UNCHANGED slideVars

Next ==
  \/ \E k \in Schedules : SlideCompletes(k)
  \/ StartTimerFires
  \/ \E c \in CallIds : GetUserMediaResolves(c)
  \/ \E c \in CallIds : GetUserMediaRejects(c)
  \/ \E c \in CallIds : AudioContextThrows(c)
  \/ \E c \in CallIds : WebSocketThrows(c)
  \/ \E c \in CallIds : SocketOpens(c)
  \/ \E c \in CallIds : SocketErrors(c)
  \/ \E c \in CallIds : SocketCloses(c)
  \/ HangUp
  \/ \E c \in CallIds : \E env \in Envelopes : Message(c, env)
  \/ \E n \in PayloadIds : RenderFinish(n)
  \/ \E n \in PayloadIds : Ended(n)

Spec == Init /\ [][Next]_vars

\* ------------------------------------------------ outbound specification
\* The session with the two handlers that send on the socket after it opened,
\* and without the inbound envelopes: playback reads and writes nothing the
\* outbound handlers read.
NextSend ==
  \/ \E k \in Schedules : SlideCompletes(k)
  \/ StartTimerFires
  \/ \E c \in CallIds : GetUserMediaResolves(c)
  \/ \E c \in CallIds : GetUserMediaRejects(c)
  \/ \E c \in CallIds : AudioContextThrows(c)
  \/ \E c \in CallIds : WebSocketThrows(c)
  \/ \E c \in CallIds : SocketOpens(c)
  \/ \E c \in CallIds : SocketErrors(c)
  \/ \E c \in CallIds : SocketCloses(c)
  \/ HangUp
  \/ SendText
  \/ \E c \in CallIds : AudioProcess(c)

SpecSend == Init /\ [][NextSend]_vars

\* ----------------------------------------------------- PCM specification
\* One sample through the loop body of onaudioprocess, the base64 text of the
\* envelope, and the loop bodies of playNextAudio.  Samples are rationals
\* with denominator SampleDen, in [-2, 2] so that the clamp has work to do;
\* products of a float32 sample and 0x8000 are exact in double arithmetic.
Samples == (-2 * SampleDen)..(2 * SampleDen)

\* Math.max(-1, Math.min(1, inputData[i]))
Clamp(k) == Max(-SampleDen, Min(SampleDen, k))

\* the integer part of n/d, towards zero (d > 0)
Trunc(n, d) == IF n >= 0 THEN n \div d ELSE -((-n) \div d)

\* the store into an Int16Array element: truncate, then wrap modulo 2^16
ToInt16(v) == ((v + 32768) % 65536) - 32768

\* the loop body with 0x8000 for both signs
Pcm16SymmetricScale(k) ==
  ToInt16(Trunc(Clamp(k) * 32768, SampleDen))

\* pcm16[i] = s < 0 ? s * 0x8000 : s * 0x7FFF
Pcm16(k) ==
  LET s == Clamp(k)
  IN ToInt16(Trunc(IF s < 0 THEN s * 32768 ELSE s * 32767, SampleDen))

\* new Uint8Array(pcm16.buffer): the two bytes of an element, low byte first
Bytes(v) == LET u == v % 65536 IN <<u % 256, u \div 256>>

\* btoa of two bytes: three base64 digits (and one '=')
Btoa(b) == <<b[1] \div 4, (b[1] % 4) * 16 + b[2] \div 16, (b[2] % 16) * 4>>

\* atob of three base64 digits and one '=': two bytes
Atob(d) == <<d[1] * 4 + d[2] \div 16, (d[2] % 16) * 16 + d[3] \div 4>>

\* new Int16Array(bytes.buffer): the element the two bytes make
Int16Of(b) == LET u == b[1] + 256 * b[2] IN IF u >= 32768 THEN u - 65536 ELSE u

InitPCM ==
  /\ InitCall /\ InitSlide
  /\ inputData \in Samples
  /\ pcm16 = 0 /\ audioBase64 = <<>> /\ float32Array = 0
  /\ pcmStep = "input"

OnlyPCM == UNCHANGED <<pbVars, sessVars, slideVars>>

\* onaudioprocess encodes the sample and builds the envelope text
EncodeSample ==
  /\ pcmStep = "input"
  /\ pcm16' = Pcm16(inputData)
  /\ audioBase64' = Btoa(Bytes(pcm16'))
  /\ pcmStep' = "encoded"
  /\ UNCHANGED <<inputData, float32Array>>
  /\ OnlyPCM

\* playNextAudio decodes the envelope text: float32Array[i] = int16 / 32768.0
DecodeSample ==
  /\ pcmStep = "encoded"
  /\ float32Array' = Int16Of(Atob(audioBase64))
  /\ pcmStep' = "decoded"
  /\ UNCHANGED <<inputData, pcm16, audioBase64>>
  /\ OnlyPCM

NextPCM == EncodeSample \/ DecodeSample

SpecPCM == InitPCM /\ [][NextPCM]_vars

\* ------------------------------------------------- gesture specification
\* clientX - rect.left of the pointer events
ClientXs == {11, 131, 263, 264, 331}

\* handleMove: Math.max(0, Math.min(maxSlide, clientX - rect.left - 31))
NewPosition(x) == Max(0, Min(maxSlide, x - 31))

\* position > maxSlide * 0.9
PastThreshold(pos) == 10 * pos > 9 * maxSlide

SlideState == [isDragging |-> isDragging, slidePosition |-> slidePosition,
               isComplete |-> isComplete]

\* What a render does: the handlers close over the state, and the effect with
\* dependency [isDragging] swaps the document listeners when it changed.
ListenerAfterRender(old, new, l) ==
  IF new.isDragging = old.isDragging THEN l
  ELSE IF new.isDragging
       THEN [on |-> TRUE, isDragging |-> new.isDragging,
             slidePosition |-> new.slidePosition,
             isComplete |-> new.isComplete]
       ELSE NoListener

\* handleStart through onMouseDown / onTouchStart of the thumb.  React flushes
\* the update of a discrete event, and its effects, before the event returns.
PointerDown ==
  /\ mounted /\ ~pointerDown
  /\ Len(drags) < MaxDrags
  /\ pointerDown' = TRUE
  /\ IF rendered.isComplete
     THEN UNCHANGED <<isDragging, rendered, listener, drags>>
     ELSE /\ isDragging' = TRUE
          /\ rendered' = [SlideState EXCEPT !.isDragging = TRUE]
          /\ listener' = ListenerAfterRender(rendered, rendered', listener)
          /\ drags' = Append(drags, [scheduled |-> 0, crossed |-> FALSE])
  /\ UNCHANGED <<mounted, slidePosition, isComplete, moves, mounts, timers>>
  /\ UNCHANGED <<pbVars, callState, callStartTime, wsRef, mediaStreamRef,
                 inputAudioContextRef, processorRef, sourceRef, analyserRef,
                 sockets, calls, liveStreams, openInputCtx, captureGraphs,
                 closeDue, toasts, sent, pcmVars>>

OtherUnchanged ==
  UNCHANGED <<pbVars, callState, callStartTime, wsRef, mediaStreamRef,
              inputAudioContextRef, processorRef, sourceRef, analyserRef,
              sockets, calls, liveStreams, openInputCtx, captureGraphs,
              closeDue, toasts, sent, pcmVars>>

\* handleMove through the document listeners (mousemove / touchmove); the
\* handler reads the values its listener closed over.
PointerMove(x) ==
  /\ mounted /\ pointerDown /\ moves < MaxMoves
  /\ moves' = moves + 1
  /\ LET pos == NewPosition(x)
         runs == listener.on /\ listener.isDragging /\ ~listener.isComplete
         fires == runs /\ PastThreshold(pos)
     IN /\ slidePosition' = IF runs THEN pos ELSE slidePosition
        /\ isComplete' = IF fires THEN TRUE ELSE isComplete
        /\ isDragging' = IF fires THEN FALSE ELSE isDragging
        /\ timers' = IF fires THEN timers + 1 ELSE timers
        /\ drags' = IF drags = <<>> THEN drags
                    ELSE [drags EXCEPT ![Len(drags)] =
                            [scheduled |-> @.scheduled + (IF fires THEN 1 ELSE 0),
                             crossed |-> @.crossed \/ PastThreshold(pos)]]
  /\ UNCHANGED <<mounted, rendered, listener, pointerDown, mounts>>
  /\ OtherUnchanged

\* handleEnd without the reset of the position
PointerUpKeepsPosition ==
  /\ mounted /\ pointerDown
  /\ pointerDown' = FALSE
  /\ LET runs == listener.on /\ ~listener.isComplete
     IN isDragging' = IF runs THEN FALSE ELSE isDragging
  /\ UNCHANGED <<mounted, slidePosition, isComplete, rendered, listener,
                 drags, moves, mounts, timers>>
  /\ OtherUnchanged

\* handleEnd through the document listeners (mouseup / touchend)
PointerUp ==
  /\ mounted /\ pointerDown
  /\ pointerDown' = FALSE
  /\ LET runs == listener.on /\ ~listener.isComplete
     IN /\ isDragging' = IF runs THEN FALSE ELSE isDragging
        /\ slidePosition' = IF runs /\ ~PastThreshold(listener.slidePosition)
                            THEN 0 ELSE slidePosition
  /\ UNCHANGED <<mounted, isComplete, rendered, listener, drags, moves,
                 mounts, timers>>
  /\ OtherUnchanged

\* React re-renders the control after updates made in a document listener
Render ==
  /\ mounted /\ rendered # SlideState
  /\ rendered' = SlideState
  /\ listener' = ListenerAfterRender(rendered, SlideState, listener)
  /\ UNCHANGED <<mounted, isDragging, slidePosition, isComplete, pointerDown,
                 drags, moves, mounts, timers>>
  /\ OtherUnchanged

\* a setTimeout callback runs onCallStart; the parent leaves 'idle' and
\* unmounts the control (the effect clean-up removes the listeners)
CallbackFires ==
  /\ timers > 0
  /\ timers' = timers - 1
  /\ mounted' = FALSE
  /\ listener' = NoListener
  /\ UNCHANGED <<isDragging, slidePosition, isComplete, rendered, pointerDown,
                 drags, moves, mounts>>
  /\ OtherUnchanged

\* the parent is 'idle' again and creates a new control
Remount ==
  /\ ~mounted /\ mounts < MaxMounts
  /\ mounted' = TRUE /\ mounts' = mounts + 1
  /\ isDragging' = FALSE /\ slidePosition' = 0 /\ isComplete' = FALSE
  /\ rendered' = FreshSlide /\ listener' = NoListener
  /\ pointerDown' = FALSE /\ drags' = <<>> /\ moves' = 0
  /\ UNCHANGED timers
  /\ OtherUnchanged

NextSlide ==
  \/ PointerDown
  \/ \E x \in ClientXs : PointerMove(x)
  \/ PointerUp
  \/ Render
  \/ CallbackFires
  \/ Remount

SpecSlide == Init /\ [][NextSlide]_vars

\* ====================================================== playback properties
IsDelivery(e) == e[1] \in {"audio", "clear"}
IsStart(e) == e[1] = "start"
IsSkip(e) == e[1] = "skip"

\* what the pipeline was handed, in order: payloads and clears
Deliveries == SelectSeq(log, IsDelivery)

\* position in the log of the last clear (0: none)
LastClear ==
  LET cs == {i \in 1..Len(log) : log[i][1] = "clear"}
  IN IF cs = {} THEN 0 ELSE CHOOSE i \in cs : \A j \in cs : j <= i

AfterLastClear == SubSeq(log, LastClear + 1, Len(log))

ClearEnv == <<"clear", 0>>

\* the pipeline was handed exactly audio(a), clear_audio, audio(b)
ABCase(a, b) == Deliveries = << <<"audio", a>>, ClearEnv, <<"audio", b>> >>

\* C1: after the pipeline was handed audio(A), clear_audio, audio(B) in that
\* order, A is not rendering, the only render started since the clear is the
\* one of B (started once, at its delivery, unless B failed to decode and was
\* skipped), and before B arrives nothing starts after the clear -- whenever
\* the ended events of A and B are dispatched.
C1_OnlyBRendersAfterClear ==
  \A a, b \in PayloadIds :
    /\ Deliveries = << <<"audio", a>>, ClearEnv >> =>
         /\ ~Rendering(a)
         /\ SelectSeq(AfterLastClear, IsStart) = <<>>
    /\ ABCase(a, b) =>
         /\ ~Rendering(a)
         /\ \/ SelectSeq(AfterLastClear, IsStart) = << <<"start", b>> >>
            \/ /\ SelectSeq(AfterLastClear, IsStart) = <<>>
               /\ SelectSeq(AfterLastClear, IsSkip) = << <<"skip", b>> >>

\* A was stopped by the clear, B started, and the ended event of A was
\* dispatched while B was rendering (it reset the current-source reference).
C1_Witness ==
  \E a, b \in PayloadIds :
    /\ ABCase(a, b)
    /\ << <<"start", a>>, ClearEnv >> = SubSeq(log, 2, 3)
    /\ nodes[a].status = "done"
    /\ Rendering(b)
    /\ currentSourceRef = 0

\* C2: at most one payload is rendering at any time.
C2_AtMostOneRendering ==
  Cardinality({n \in PayloadIds : Rendering(n)}) <= 1

\* C3: the ended event of a render that clearAudioQueue stopped leaves the
\* queue, the now-playing flag and the current-source reference unchanged.
C3_StaleEndedIsNoOp ==
  [][\A n \in PayloadIds :
       (nodes[n].status = "stopped" /\ nodes'[n].status = "done")
         => UNCHANGED <<audioQueueRef, isPlayingRef, currentSourceRef>>]_vars

ClearStep ==
  /\ Len(log') = Len(log) + 1
  /\ log'[Len(log')] = ClearEnv

\* C4: a clear leaves the queue empty, the now-playing flag false and nothing
\* rendering, and no render starts after a clear before the next payload is
\* enqueued.
C4_ClearStopsEverything ==
  /\ [][ClearStep => /\ audioQueueRef' = <<>>
                     /\ ~isPlayingRef'
                     /\ \A n \in PayloadIds : nodes'[n].status # "rendering"]_vars
  /\ [](\A i \in 1..Len(AfterLastClear) :
          IsStart(AfterLastClear[i]) =>
            \E j \in 1..(i - 1) : AfterLastClear[j][1] = "audio")

\* position in the log of the delivery of payload n
Delivered(l, n) == CHOOSE i \in 1..Len(l) : l[i] = <<"audio", n>>

\* payloads p and q were both enqueued, with no clear in between
NoClearBetween(l, p, q) ==
  /\ \E i \in 1..Len(l) : l[i] = <<"audio", p>>
  /\ \E i \in 1..Len(l) : l[i] = <<"audio", q>>
  /\ \A i \in Delivered(l, p)..Delivered(l, q) : l[i] # ClearEnv

Starts(l) == SelectSeq(l, IsStart)

\* C5: renders start in enqueue order; when a payload starts, every payload
\* enqueued before it with no clear in between has finished rendering (or was
\* skipped); and the ended event of a render that finished by itself starts
\* the next queued payload.
C5_OrderNoOverlapChained ==
  /\ [](\A i, j \in 1..Len(Starts(log)) :
          i < j => Starts(log)[i][2] < Starts(log)[j][2])
  /\ [][\A q \in PayloadIds :
          (nodes[q].status = "none" /\ nodes'[q].status = "rendering") =>
            \A p \in 1..(q - 1) :
              NoClearBetween(log', p, q) =>
                \/ nodes'[p].status \in {"finished", "done"}
                \/ \E i \in 1..Len(log') : log'[i] = <<"skip", p>>]_vars
  /\ [][\A n \in PayloadIds :
          (nodes[n].status = "finished" /\ nodes'[n].status = "done"
             /\ audioQueueRef # <<>>)
            => /\ Len(log') > Len(log)
               /\ log'[Len(log) + 1] \in
                    {<<"start", Head(audioQueueRef).id>>,
                     <<"skip", Head(audioQueueRef).id>>}]_vars

\* ======================================================= gesture properties
\* C6: every drag has scheduled the start callback exactly once if it
\* crossed 90% of maxSlide and never if it did not.
C6_OneCallbackPerCompletedDrag ==
  \A d \in 1..Len(drags) :
    drags[d].scheduled = (IF drags[d].crossed THEN 1 ELSE 0)

\* ======================================================= session properties
ThisCall == NextCall - 1

\* C7: callState changes only idle->connecting, connecting->active,
\* connecting->idle and active->idle, and it becomes active only when the
\* socket of the latest start request opens while callState is 'connecting'.
C7_TransitionsOfCallState ==
  [][/\ \/ callState' = callState
        \/ <<callState, callState'>> \in
             {<<"idle", "connecting">>, <<"connecting", "active">>,
              <<"connecting", "idle">>, <<"active", "idle">>}
     /\ (callState' = "active" /\ callState # "active") =>
          /\ callState = "connecting"
          /\ sockets[ThisCall] = "CONNECTING"
          /\ sockets'[ThisCall] = "OPEN"]_vars

\* capture graphs that still run: connected, in a context that is open
LiveGraphs == {g \in captureGraphs : g.ctx \in openInputCtx}

NothingRendering == \A n \in PayloadIds : ~Rendering(n)

\* the close event of socket c is dispatched in this step
CloseEvent(c) ==
  /\ sockets'[c] = "CLOSED" /\ closeDue' = 0
  /\ \/ closeDue = c
     \/ closeDue = 0 /\ sockets[c] \in {"OPEN", "CLOSING"}

\* C8: after the close event of a socket the session is idle, startedAt is 0,
\* no microphone stream is live, no capture graph runs, both audio contexts
\* are closed, the queue is empty, nothing renders and wsRef is null.
C8_CloseReleasesEverything ==
  [][(\E c \in CallIds : CloseEvent(c)) =>
       /\ callState' = "idle" /\ callStartTime' = 0
       /\ liveStreams' = {}
       /\ LiveGraphs' = {}
       /\ openInputCtx' = {} /\ openOutputCtx' = {}
       /\ audioQueueRef' = <<>> /\ NothingRendering'
       /\ wsRef' = 0]_vars

\* C9: while callState is 'idle' no microphone stream is live, no capture
\* graph runs, no socket is connecting or open, no audio context is open, the
\* queue is empty and nothing renders.
C9_IdleOwnsNothing ==
  callState = "idle" =>
    /\ liveStreams = {}
    /\ LiveGraphs = {}
    /\ \A c \in CallIds : sockets[c] \notin {"CONNECTING", "OPEN"}
    /\ openInputCtx = {} /\ openOutputCtx = {}
    /\ audioQueueRef = <<>> /\ NothingRendering

\* what handleCallEnd would release in state s: one entry per release call
Releases(s) ==
  {<<"ws.close", s.wsRef>> : x \in {1} \cap {IF s.wsRef # 0 THEN 1 ELSE 0}} \cup
  {<<"source.stop", s.currentSourceRef>> :
      x \in {1} \cap {IF s.currentSourceRef # 0 THEN 1 ELSE 0}} \cup
  {<<"processor.disconnect", s.processorRef>> :
      x \in {1} \cap {IF s.processorRef # 0 THEN 1 ELSE 0}} \cup
  {<<"source.disconnect", s.sourceRef>> :
      x \in {1} \cap {IF s.sourceRef # 0 THEN 1 ELSE 0}} \cup
  {<<"track.stop", s.mediaStreamRef>> :
      x \in {1} \cap {IF s.mediaStreamRef # 0 THEN 1 ELSE 0}} \cup
  {<<"input.close", s.inputAudioContextRef>> :
      x \in {1} \cap {IF s.inputAudioContextRef # 0 THEN 1 ELSE 0}} \cup
  {<<"output.close", s.outputAudioContextRef>> :
      x \in {1} \cap {IF s.outputAudioContextRef # 0 THEN 1 ELSE 0}}

EndedSessions == {c \in CallIds : sockets[c] \in {"CLOSING", "CLOSED"}}

\* sockets whose close event was dispatched
ClosedSessions == {c \in CallIds : sockets[c] = "CLOSED" /\ closeDue # c}

\* C11: every session end has its closed effect (handleCallEnd with its
\* 'Call Ended' notification) exactly once: never more notifications than
\* sessions that ended, and one for every socket whose close event was
\* dispatched.
C11_ClosedEffectExactlyOnce ==
  /\ toasts["Call Ended"] <= Cardinality(EndedSessions)
  /\ Cardinality(ClosedSessions) <= toasts["Call Ended"]

\* getUserMedia of start request c rejects in this step
DenialStep(c) ==
  /\ calls[c] = "getUserMedia" /\ calls'[c] = "done"
  /\ c \notin liveStreams'

\* C12: when microphone acquisition fails the call state is idle, the failure
\* notification is shown, no socket exists for that start request then or
\* later, and nothing is ever sent for it.
C12_AcquisitionDenialLeavesNoChannel ==
  /\ [][\A c \in CallIds :
          DenialStep(c) =>
            /\ callState' = "idle"
            /\ sockets'[c] = "NONE" /\ sent'[c] = <<>>
            /\ toasts' = [toasts EXCEPT !["Error: Failed to start call"] = @ + 1]
       ]_vars
  /\ [][\A c \in CallIds :
          (calls[c] = "done" /\ sockets[c] = "NONE") => sockets'[c] = "NONE"]_vars
  /\ [](\A c \in CallIds : sockets[c] = "NONE" => sent[c] = <<>>)

\* the first start request was denied the microphone: no stream was ever
\* live, no socket was made, the failure notification is up
C12_Witness ==
  /\ calls[1] = "done" /\ liveStreams = {} /\ mediaStreamRef = 0
  /\ \A c \in CallIds : sockets[c] = "NONE" /\ sent[c] = <<>>
  /\ callState = "idle"
  /\ toasts["Error: Failed to start call"] = 1
  /\ toasts["Call Ended"] = 0

\* C13: callStartTime is 0 whenever callState is not 'active'; it becomes
\* non-zero only in a step that enters 'active', and every step that leaves
\* 'active' clears it.
C13_StartedAtOnlyWhileActive ==
  /\ [](callState # "active" => callStartTime = 0)
  /\ [][(callStartTime = 0 /\ callStartTime' # 0) =>
          (callState # "active" /\ callState' = "active")]_vars
  /\ [][(callState = "active" /\ callState' # "active") =>
          callStartTime' = 0]_vars

\* number of config envelopes in a sequence of sent envelope types
Configs(q) == Cardinality({i \in 1..Len(q) : q[i] = "config"})

\* C14: on every socket the config envelope is the first envelope sent and is
\* sent once; a socket that is open has had it sent, and an active session
\* has a socket that has had it sent.
C14_ConfigFirstAndOnce ==
  /\ \A c \in CallIds :
       /\ sockets[c] = "OPEN" => sent[c] # <<>>
       /\ sent[c] # <<>> => (sent[c][1] = "config" /\ Configs(sent[c]) = 1)
  /\ callState = "active" => (wsRef # 0 /\ Configs(sent[wsRef]) = 1)

\* a socket carried config, then an audio envelope and a text envelope
C14_Witness ==
  \E c \in CallIds :
    /\ Len(sent[c]) = 3 /\ sent[c][1] = "config"
    /\ {sent[c][2], sent[c][3]} = {"audio", "text"}

\* C15: at most one socket is connecting or open and at most one microphone
\* stream is live.
C15_SingleLiveSession ==
  /\ Cardinality({c \in CallIds : sockets[c] \in {"CONNECTING", "OPEN"}}) <= 1
  /\ Cardinality(liveStreams) <= 1

\* C16: a start callback that runs while callState is 'connecting' or
\* 'active' changes neither callState nor the start requests in progress,
\* the live streams or the sockets.
C16_StartWhileBusyIsNoOp ==
  [][(timers' = timers - 1 /\ callState \in {"connecting", "active"}) =>
       UNCHANGED <<callState, calls, liveStreams, sockets>>]_vars

\* the handles and the browser objects behind them
Owned == <<wsRef, mediaStreamRef, inputAudioContextRef, outputAudioContextRef,
           processorRef, sourceRef, analyserRef, currentSourceRef,
           liveStreams, openInputCtx, openOutputCtx, captureGraphs, nodes>>

\* C17: handleCallEnd run while callState is 'idle' leaves callState,
\* callStartTime, the owned resources and the notifications unchanged.  The
\* runs looked at are those of a close event that no error event precedes in
\* its task, so that 'idle' is a state the component has rendered.
C17_EndWhileIdleIsNoOp ==
  [][((\E c \in CallIds : CloseEvent(c)) /\ closeDue = 0
        /\ callState = "idle") =>
       UNCHANGED <<callState, callStartTime, Owned, toasts>>]_vars

\* what handleSendMessage must leave of state s: exactly one more
\* 'Message Sent', one text envelope more on the socket of wsRef if and only
\* if that socket is open, and nothing else changed
SendTextEffect(s, r) ==
  /\ r.toasts = [s.toasts EXCEPT !["Message Sent"] = @ + 1]
  /\ r.sent = IF s.wsRef # 0 /\ s.sockets[s.wsRef] = "OPEN"
              THEN [s.sent EXCEPT ![s.wsRef] = Append(@, "text")]
              ELSE s.sent
  /\ [r EXCEPT !.toasts = s.toasts, !.sent = s.sent] = s

\* C18: in every state (whatever callState is) handleSendMessage changes
\* nothing but the notifications and the sent envelopes, shows 'Message Sent'
\* once, and sends one text envelope exactly when wsRef is set and its socket
\* is open; and every step that shows 'Message Sent' is such a step.
C18_SendTextFrame ==
  /\ [](SendTextEffect(S, HandleSendMessage(S)))
  /\ [][toasts'["Message Sent"] # toasts["Message Sent"] =>
          /\ SendTextEffect(S, S')
          /\ UNCHANGED <<slideVars, pcmVars>>]_vars

\* a message was acknowledged and sent on the open socket of an active call
C18_Witness ==
  /\ toasts["Message Sent"] >= 1
  /\ callState = "active" /\ wsRef # 0 /\ sockets[wsRef] = "OPEN"
  /\ \E i \in 1..Len(sent[wsRef]) : sent[wsRef][i] = "text"

\* ========================================================== PCM properties
\* |inputData/SampleDen - float32Array/32768| in units of 1/(32768*SampleDen)
RoundTripError ==
  LET e == 32768 * inputData - float32Array * SampleDen
  IN IF e < 0 THEN -e ELSE e

InRange == inputData \in (-SampleDen)..SampleDen

\* C19 as stated: a sample of [-1, 1] comes back within one quantization
\* step 1/32768, and its encoded integer lies in [-32768, 32767].
C19_RoundTripWithinOneStep ==
  /\ (pcmStep \in {"encoded", "decoded"} /\ InRange) =>
       pcm16 \in (-32768)..32767
  /\ (pcmStep = "decoded" /\ InRange) => RoundTripError <= SampleDen

\* C19 as amended: a sample of [-1, 1] comes back less than two quantization
\* steps away, and within one step when it is not positive; its encoded
\* integer lies in [-32768, 32767] and survives the base64 text unchanged.
C19_RoundTripWithinTwoSteps ==
  /\ (pcmStep \in {"encoded", "decoded"} /\ InRange) =>
       pcm16 \in (-32768)..32767
  /\ (pcmStep = "decoded" /\ InRange) =>
       /\ float32Array = pcm16
       /\ RoundTripError < 2 * SampleDen
       /\ inputData <= 0 => RoundTripError <= SampleDen

\* a positive sample below 1 came back more than one step away
C19_Witness ==
  /\ pcmStep = "decoded"
  /\ inputData > 0 /\ inputData < SampleDen
  /\ RoundTripError > SampleDen

\* ===================================================== now-playing property
\* a render that is in progress: it plays, or it is the current source, has
\* reached the end of its buffer and its ended event is still to be dispatched
InProgress(n) ==
  \/ nodes[n].status = "rendering"
  \/ nodes[n].status = "finished" /\ currentSourceRef = n

\* C20: after every call the now-playing flag is set exactly when a payload
\* taken from the queue is rendering.
C20_NowPlayingIffRendering ==
  isPlayingRef <=> (\E n \in PayloadIds : InProgress(n))

\* ===================================================== outbound properties
\* an audio envelope is sent on socket c in this step
AudioSentOn(c) ==
  /\ Len(sent'[c]) > Len(sent[c])
  /\ sent'[c][Len(sent'[c])] = "audio"

\* C21: an audio envelope is sent only while callState is 'active', on the
\* socket wsRef points to and while that socket is open; each block sends one
\* envelope, appended after the envelopes sent before it; and a block that
\* finds no open socket sends nothing then or later (a step that sends
\* audio is a step of onaudioprocess that found the socket open).
C21_AudioOnlyWhileActiveAndOpen ==
  [][\A c \in CallIds :
       AudioSentOn(c) =>
         /\ callState = "active"
         /\ wsRef = c /\ sockets[c] = "OPEN"
         /\ sent'[c] = Append(sent[c], "audio")
         /\ \A d \in CallIds \ {c} : sent'[d] = sent[d]]_vars

\* ================================================ decode-failure property
\* what this step appended to the log
NewEntries == SubSeq(log', Len(log) + 1, Len(log'))

IsStartOrSkip(e) == e[1] \in {"start", "skip"}

\* the payloads this step took from the queue, in the order it took them
Taken == SelectSeq(NewEntries, IsStartOrSkip)

\* the payloads this step could take, in queue order: those queued before
\* it, then the one it enqueued
Pending ==
  [i \in 1..Len(audioQueueRef) |-> audioQueueRef[i].id] \o
  (IF NewEntries # <<>> /\ NewEntries[1][1] = "audio"
   THEN <<NewEntries[1][2]>> ELSE <<>>)

\* C22: a payload that fails to decode is skipped and does not stall the
\* queue: in the step that skips it the next queued payload is taken at once
\* (started, or skipped in turn), or, when nothing is queued behind it, the
\* queue is empty and the pipeline is not playing; and a payload enqueued
\* while the pipeline is not playing is taken in the step that enqueues it.
C22_DecodeFailureSkips ==
  /\ [][Len(log') > Len(log) =>
          /\ Len(Taken) <= Len(Pending)
          /\ \A i \in 1..Len(Taken) :
               /\ Taken[i][2] = Pending[i]
               /\ IsSkip(Taken[i]) =>
                    IF i < Len(Taken)
                    THEN TRUE
                    ELSE /\ Len(Taken) = Len(Pending)
                         /\ audioQueueRef' = <<>> /\ ~isPlayingRef'
                         /\ currentSourceRef' = 0
               /\ IsStart(Taken[i]) => i = Len(Taken)]_vars
  /\ [][(~isPlayingRef /\ NewEntries # <<>> /\ NewEntries[1][1] = "audio")
          => Taken # <<>>]_vars

\* a payload queued behind a render failed to decode and the payload queued
\* behind it started in the same step
C22_Witness ==
  \E i \in 1..(Len(log) - 1) :
    /\ IsSkip(log[i]) /\ IsStart(log[i + 1])
    /\ Rendering(log[i + 1][2])

\* ================================================= inbound frame properties
Malformed == [type |-> "malformed", ok |-> TRUE]

\* what the session is made of: everything but the log, the arrival count and
\* the notifications
SessionOf(s) == [s EXCEPT !.log = <<>>, !.nMsgs = 0,
                          !.toasts = [t \in Titles |-> 0]]

\* the outcome of an envelope, apart from the names given to payloads
OutcomeOf(s) ==
  [callState |-> s.callState, playing |-> s.isPlayingRef,
   queued |-> Len(s.audioQueueRef), current |-> s.currentSourceRef # 0,
   toasts |-> s.toasts]

\* a socket is open, so that a message can arrive (ws.onmessage)
SomeSocketOpen == \E c \in CallIds : sockets[c] = "OPEN"

\* a malformed message is delivered in this step
DroppedStep ==
  /\ Len(log') = Len(log) + 1
  /\ log'[Len(log')][1] = "dropped"

\* C23: a message that does not parse changes nothing of the session: call
\* state, callStartTime, sockets, queue, now-playing flag, current source,
\* notifications and owned resources stay as they are; and, in every state
\* in which a message can arrive, an envelope that arrives after it has the
\* outcome it would have had without it.
C23_MalformedIsDropped ==
  /\ [][DroppedStep =>
          /\ SessionOf(S') = SessionOf(S)
          /\ toasts' = toasts /\ nMsgs' = nMsgs + 1
          /\ UNCHANGED <<slideVars, pcmVars>>]_vars
  /\ [](SomeSocketOpen =>
          \A s \in {S} : \A r \in {HandleWebSocketMessage(s, Malformed)} :
            /\ SessionOf(r) = SessionOf(s) /\ r.toasts = toasts
            /\ \A env \in Envelopes :
                 \A after \in {HandleWebSocketMessage(r, env)} :
                 \A without \in {HandleWebSocketMessage(s, env)} :
                   OutcomeOf(after) = OutcomeOf(without))

\* a malformed message arrived on the open socket of an active call, which is
\* still active with its socket open and its capture running
C23_Witness ==
  /\ callState = "active" /\ wsRef # 0 /\ sockets[wsRef] = "OPEN"
  /\ log # <<>> /\ log[Len(log)][1] = "dropped"
  /\ LiveGraphs # {} /\ toasts["Call Ended"] = 0

\* an envelope of type error, text or transcript is delivered in this step
QuietStep == nMsgs' = nMsgs + 1 /\ log' = log

\* C24: envelopes of type error, text and transcript leave the session as it
\* is (call state, callStartTime, sockets, queue, now-playing flag, current
\* source, owned resources); an error envelope shows one notification and
\* text and transcript show none.
C24_ErrorTextTranscriptFrame ==
  /\ [][QuietStep =>
          /\ SessionOf(S') = SessionOf(S)
          /\ \/ toasts' = toasts
             \/ toasts' = [toasts EXCEPT !["Error: data.message"] = @ + 1]
          /\ UNCHANGED <<slideVars, pcmVars>>]_vars
  /\ [](SomeSocketOpen =>
          \A s \in {S} : \A type \in {"error", "text", "transcript"} :
            \A r \in {HandleWebSocketMessage(s, [type |-> type, ok |-> TRUE])} :
               /\ SessionOf(r) = SessionOf(s)
               /\ r.log = log /\ r.nMsgs = nMsgs + 1
               /\ r.toasts = IF type = "error"
                             THEN [toasts EXCEPT !["Error: data.message"] = @ + 1]
                             ELSE toasts)

\* an error envelope arrived on the open socket of an active call, which is
\* still active with its socket open and its capture running
C24_Witness ==
  /\ toasts["Error: data.message"] >= 1
  /\ callState = "active" /\ wsRef # 0 /\ sockets[wsRef] = "OPEN"
  /\ LiveGraphs # {} /\ toasts["Call Ended"] = 0

\* ================================================ more gesture properties
\* C25: once isComplete is set, no event changes slidePosition, isDragging
\* or isComplete of that control (a new control starts afresh).
C25_CompleteIsTerminal ==
  [][(isComplete /\ mounts' = mounts) =>
       UNCHANGED <<slidePosition, isDragging, isComplete>>]_vars

\* the pointer is released in this step
ReleaseStep == mounted /\ pointerDown /\ ~pointerDown'

\* the pointer goes down in this step
PressStep == mounted /\ ~pointerDown /\ pointerDown'

\* C26: slidePosition stays within 0..maxSlide; a release while the control
\* is not complete sets slidePosition to 0 and isDragging to false; and a
\* press on a control that is not complete starts tracking.
C26_PositionBoundedAndReset ==
  /\ [](slidePosition \in 0..maxSlide)
  /\ [][(ReleaseStep /\ ~isComplete) =>
          (slidePosition' = 0 /\ ~isDragging')]_vars
  /\ [][(PressStep /\ ~isComplete) => isDragging']_vars

\* a drag was moved and released short of the threshold, the position went
\* back to 0, and a second drag is tracking
C26_Witness ==
  /\ Len(drags) = 2 /\ ~drags[1].crossed /\ ~drags[2].crossed
  /\ moves >= 1 /\ pointerDown
  /\ isDragging /\ ~isComplete /\ slidePosition = 0 /\ listener.on

\* ================================================ late channel events
\* socket c belongs to a session the user ended (handleCallEnd called
\* ws.close() on it and its close event is still to come), and a later
\* handleCallStart has been made
LateChannel(c) ==
  /\ sockets[c] = "CLOSING"
  /\ \E d \in CallIds : d > c /\ calls[d] # "none"

\* the close event, or the error event, of socket c is dispatched
LateEvent(c) == LateChannel(c) /\ closeDue = 0 /\ sockets'[c] = "CLOSED"

\* C27: the close or error event of the socket of an ended session, delivered
\* after a later call was started, leaves the later session alone: callState,
\* the microphone stream, the audio contexts, the capture graph, wsRef and
\* the other sockets do not change.
C27_LateEventLeavesNewSession ==
  [][(\E c \in CallIds : LateEvent(c)) =>
       /\ UNCHANGED <<callState, wsRef, mediaStreamRef, inputAudioContextRef,
                      outputAudioContextRef, liveStreams, openInputCtx,
                      openOutputCtx, captureGraphs>>
       /\ \A d \in CallIds : sockets[d] # "CLOSING" => sockets'[d] = sockets[d]]_vars

\* ================================================ capture while active
\* the capture pipeline runs: the refs are set, the stream and the input
\* context they name are live, and the graph startAudioProcessing connected
\* is still connected to a live stream in an open context
CaptureRunning ==
  /\ wsRef # 0
  /\ mediaStreamRef # 0 /\ mediaStreamRef \in liveStreams
  /\ inputAudioContextRef # 0 /\ inputAudioContextRef \in openInputCtx
  /\ processorRef # 0 /\ sourceRef # 0
  /\ \E g \in LiveGraphs : g.id = processorRef /\ g.stream \in liveStreams

\* C28: whenever callState is 'active' the capture pipeline of the session
\* runs: wsRef is set, the microphone stream and the input context are held
\* and the source/analyser/processor graph is connected.
C28_ActiveImpliesCapture == callState = "active" => CaptureRunning

\* ====================================================== playback progress
\* The playback specification with the scheduling the browser gives: a render
\* that was started reaches the end of its buffer, and the ended event of a
\* node that finished or was stopped is dispatched.
SpecPlaybackFair ==
  /\ SpecPlayback
  /\ \A n \in PayloadIds : WF_vars(RenderFinish(n)) /\ WF_vars(Ended(n))

\* payload n was handed to queueAudio
Enqueued(n) == \E i \in 1..Len(log) : log[i] = <<"audio", n>>

\* payload n was taken from the queue: its render started, or it failed to
\* decode and was skipped
Begun(n) == \E i \in 1..Len(log) : log[i] \in {<<"start", n>>, <<"skip", n>>}

\* a clear came after payload n was enqueued
ClearedAfter(n) ==
  \E i, j \in 1..Len(log) :
    i < j /\ log[i] = <<"audio", n>> /\ log[j][1] = "clear"

\* a node whose ended event is still to come
EndedPending(n) == nodes[n].status \in {"rendering", "finished", "stopped"}

\* payloads wait, the pipeline says it is playing, and no ended event will
\* come to take the next one
Stuck ==
  /\ audioQueueRef # <<>> /\ isPlayingRef
  /\ \A n \in PayloadIds : ~EndedPending(n)

\* C29: every payload that is enqueued begins rendering (or is skipped on a
\* decode failure) unless a later clear removes it, and the pipeline is never
\* left with a non-empty queue, the now-playing flag set and no ended event
\* to come.
C29_PlaybackProgress ==
  /\ []~Stuck
  /\ \A n \in PayloadIds : Enqueued(n) ~> (Begun(n) \/ ClearedAfter(n))

\* a payload waited in the queue behind a render and is rendering now, with
\* no clear since it was enqueued
C29_Witness ==
  \E n \in PayloadIds : \E i, j \in 1..Len(log) :
    /\ log[i] = <<"audio", n>> /\ log[j] = <<"start", n>>
    /\ j > i + 1
    /\ ~ClearedAfter(n)
    /\ Rendering(n)

====
